---- MODULE Spec2Model ----
(***************************************************************************)
(* A model of market/network.py (class Server): the market-level calls a    *)
(* node makes to other nodes and to the DHT overlay.                        *)
(*                                                                          *)
(* Byte strings are tagged tuples <<tag, ...>>: two byte strings are equal  *)
(* exactly when they were built the same way, so hashing, hex encoding,     *)
(* serialisation and signing are injective and none of them is the          *)
(* identity.  Python's None and a raised exception are the tagged tuples    *)
(* None and Raise(e).                                                       *)
(***************************************************************************)
EXTENDS Integers, Sequences, FiniteSets, TLC

VARIABLES
    cache,      \* the files of DATA_FOLDER/cache: a set of [name, content]
    calls,      \* RPCs and overlay requests in flight, in the order issued
    last,       \* the outcome of the handler or callback that ran last
    app,        \* the call the application made, with its arguments
    rpcs,       \* every request sent to a node or to the overlay, in order
    sets,       \* the kserver.set requests made: [keyword, key, value]
    deletes,    \* the kserver.delete requests made: [keyword, key, signature]
    notified,   \* the calls of listener.notify, in order
    transport,  \* whether protocol.multiplexer.transport is set
    dl,         \* send_notification: the DeferredList of the resolutions
    ds,         \* send_notification: the DeferredList of the callNotify calls
    db          \* FollowData: the users the local node follows

vars == <<cache, calls, last, app, rpcs, sets, deletes, notified, transport, dl, ds, db>>
msgvars == <<app, rpcs, sets, deletes, notified, transport, dl, ds, db>>

----------------------------------------------------------------------------
(* Bounds of the model *)

MaxMods == 2
MaxImages == 2
MaxFollowers == 3
MaxMailbox == 3

----------------------------------------------------------------------------
(* Python values *)

None == <<"None">>
Raise(e) == <<"raise", e>>
IsRaise(v) == v[1] = "raise"

(* binascii.hexlify / unhexlify: unhexlify raises TypeError on a string
   that is not hex. *)
hexlify(b) == <<"hex", b>>
IsHex(s) == s[1] = "hex"
unhexlify(s) == s[2]

(* dht.utils.digest *)
digest(b) == <<"digest", b>>

(* json.dumps / json.loads: loads raises ValueError on bytes that are not
   a JSON document. *)
dumps(doc) == <<"json", doc>>
IsJson(b) == b[1] = "json"
loads(b) == b[2]

(* A protobuf message of type t, serialized, and ParseFromString, which
   raises DecodeError on bytes that are not a message of the type asked. *)
SerializeToString(t, m) == <<"proto", t, m>>
Parses(t, b) == b[1] = "proto" /\ b[2] = t
ParseFromString(b) == b[3]

----------------------------------------------------------------------------
(* Keys, signatures, and the proof of work of a GUID *)

KeyNames == {"v", "m", "x"}

(* nacl: signing_key.sign(msg)[:64], and VerifyKey(key).verify(msg, sig),
   which raises BadSignatureError unless sig was made over msg by key. *)
Sign(key, msg) == <<"sig", key, msg>>
verify(key, msg, sig) == sig = <<"sig", key, msg>>

(* A signed pubkey is a 64 byte signature followed by the 32 byte key;
   signed_pubkey[64:] is the key.  The signature part is the nonce that
   is ground until the hash meets the proof of work. *)
SignedPubkey(nonce, key) == <<"spk", nonce, key>>
PubkeyOf(spk) == spk[3]

(* nacl.hash.sha512 of a signed pubkey, as the two parts the code reads:
   h[:40], the hex of the first 20 bytes, and int(h[64:128][:6], 16), the
   3 byte window.  The window of the hash is fixed by the nonce. *)
PowWindow(spk) ==
    CASE spk[2] = "n0"  -> 0
      [] spk[2] = "n49" -> 49
      [] spk[2] = "n50" -> 50
      [] OTHER          -> 70000
sha512_head(spk) == hexlify(<<"h20", spk>>)
sha512_window(spk) == PowWindow(spk)

PowLimit == 50

GuidOf(spk) == <<"h20", spk>>

----------------------------------------------------------------------------
(* Nodes *)

Node(id, ip, spk) == [id |-> id, ip |-> ip, signed_pubkey |-> spk]

VendorSpk == SignedPubkey("n0", "v")
Vendor == Node(GuidOf(VendorSpk), "10.0.0.1", VendorSpk)
OfflineVendor == Node(GuidOf(VendorSpk), "None", VendorSpk)
FetchNodes == {Vendor, OfflineVendor}

----------------------------------------------------------------------------
(* The cache folder *)

CacheName(b) == hexlify(digest(b))
isfile(c, name) == \E f \in c : f.name = name

(* A cache that names the file by the bytes and not by their digest. *)
Server_cache_named_by_bytes(c, b) ==
    IF ~isfile(c, hexlify(b))
    THEN c \cup {[name |-> hexlify(b), content |-> b]}
    ELSE c

(* Server.cache: saves the file unless a file of its name exists. *)
Server_cache(c, b) ==
    IF ~isfile(c, CacheName(b))
    THEN c \cup {[name |-> CacheName(b), content |-> b]}
    ELSE c

----------------------------------------------------------------------------
(* What a remote node can answer to the fetch calls *)

Images == {<<"img", "i1">>, <<"img", "i2">>}
Junk == <<"junk", "j">>

(* The result of an RPC: (True, [payload...]) or, when the call failed,
   (False, None); data is empty when the code's result[1] is None. *)
RpcFailed == [ok |-> FALSE, data |-> <<>>]
RpcResult(data) == [ok |-> TRUE, data |-> data]

Moderator(nonce, key, guidspk, encsigner, btcsigner) ==
    [guid        |-> sha512_head(guidspk),
     guid_key    |-> hexlify(key),
     guid_sig    |-> hexlify(nonce),
     enc_key     |-> hexlify(<<"enc", key>>),
     enc_sig     |-> hexlify(Sign(encsigner, <<"enc", key>>)),
     bitcoin_key |-> hexlify(<<"btc", key>>),
     bitcoin_sig |-> hexlify(Sign(btcsigner, <<"btc", key>>))]

ModeratorPool ==
    { Moderator("n49", "m", SignedPubkey("n49", "m"), "m", "m"),
      Moderator("n50", "m", SignedPubkey("n50", "m"), "m", "m"),
      Moderator("n49", "m", SignedPubkey("n0", "m"), "m", "m"),
      Moderator("n49", "m", SignedPubkey("n49", "m"), "x", "m"),
      Moderator("n49", "m", SignedPubkey("n49", "m"), "m", "x") }

SeqsUpTo(S, n) == UNION {[1..k -> S] : k \in 0..n}

ImageHashPool == {hexlify(digest(i)) : i \in Images} \cup {<<"str", "zz">>}

Listings ==
    [has_moderators : {TRUE}, moderators : SeqsUpTo(ModeratorPool, MaxMods),
     has_image_hashes : {TRUE}, image_hashes : SeqsUpTo(ImageHashPool, MaxImages)]
    \cup
    [has_moderators : {FALSE}, moderators : {<<>>},
     has_image_hashes : {TRUE}, image_hashes : SeqsUpTo(ImageHashPool, MaxImages)]
    \cup
    [has_moderators : {TRUE}, moderators : SeqsUpTo(ModeratorPool, MaxMods),
     has_image_hashes : {FALSE}, image_hashes : {<<>>}]

Contracts ==
    {[vendor_offer |-> [listing |-> l, signature |-> hexlify(Sign(k, dumps(l)))]] :
        l \in Listings, k \in {"v", "x"}}

ContractBytes == {dumps(c) : c \in Contracts} \cup {Junk}

----------------------------------------------------------------------------
(* The fetch calls.  A call in flight is [op, node, arg]; the outcome of a
   callback is [ret, cache, issued]: the value it returns (or the exception
   that leaves it), the cache folder after it, and the calls it issued. *)

Call(op, node, arg) == [op |-> op, node |-> node, arg |-> arg]
Outcome(ret, c, issued) == [ret |-> ret, cache |-> c, issued |-> issued]

(* The part of get_image that runs at the call: no RPC when the node's ip
   is unknown. *)
get_image_call(node, image_hash) ==
    IF node.ip = "None" THEN <<>> ELSE <<Call("get_image", node, image_hash)>>

(* get_contract.get_result, lines 59-73: one pass of the loop body; FALSE
   when it raises. *)
moderator_ok(moderator) ==
    LET guid_key == moderator.guid_key
        guid_sig == moderator.guid_sig
        h_of     == SignedPubkey(unhexlify(guid_sig), unhexlify(guid_key))
    IN  /\ ~(sha512_window(h_of) >= PowLimit \/ moderator.guid # sha512_head(h_of))
        /\ verify(unhexlify(guid_key), unhexlify(moderator.enc_key),
                  unhexlify(moderator.enc_sig))
        /\ verify(unhexlify(guid_key), unhexlify(moderator.bitcoin_key),
                  unhexlify(moderator.bitcoin_sig))

(* A loop that leaves after its first pass. *)
moderators_ok_first_only(moderators) ==
    Len(moderators) = 0 \/ moderator_ok(Head(moderators))

(* The loop of line 59: it stops at the first moderator that raises. *)
RECURSIVE moderators_ok(_)
moderators_ok(moderators) ==
    IF Len(moderators) = 0 THEN TRUE
    ELSE IF ~moderator_ok(Head(moderators)) THEN FALSE
    ELSE moderators_ok(Tail(moderators))

(* get_contract.get_result, lines 53-76: the try block; FALSE when an
   exception is caught. *)
contract_verifies(node_to_ask, contract) ==
    LET listing == contract.vendor_offer.listing
        pubkey  == PubkeyOf(node_to_ask.signed_pubkey)
    IN  /\ verify(pubkey, dumps(listing), unhexlify(contract.vendor_offer.signature))
        /\ listing.has_moderators
        /\ moderators_ok(listing.moderators)

(* get_contract.get_result, lines 79-80: the calls issued before the loop
   ends or unhexlify raises. *)
RECURSIVE fetch_images(_, _)
fetch_images(node_to_ask, image_hashes) ==
    IF Len(image_hashes) = 0 THEN [issued |-> <<>>, raised |-> FALSE]
    ELSE IF ~IsHex(Head(image_hashes)) THEN [issued |-> <<>>, raised |-> TRUE]
    ELSE LET rest == fetch_images(node_to_ask, Tail(image_hashes))
         IN  [issued |-> get_image_call(node_to_ask, unhexlify(Head(image_hashes)))
                           \o rest.issued,
              raised |-> rest.raised]

(* The contract held back behind the image fetches: a Deferred of the
   fetches is what the callback returns when it triggered any. *)
get_contract_get_result_after_images(node_to_ask, contract_hash, result, c) ==
    IF Len(result.data) = 0 THEN Outcome(Raise("TypeError"), c, <<>>)
    ELSE IF digest(result.data[1]) = contract_hash
    THEN IF ~IsJson(result.data[1]) THEN Outcome(Raise("ValueError"), c, <<>>)
         ELSE LET contract == loads(result.data[1])
                  item     == contract.vendor_offer.listing
                  images   == fetch_images(node_to_ask, item.image_hashes)
              IN  IF ~contract_verifies(node_to_ask, contract)
                  THEN Outcome(None, c, <<>>)
                  ELSE IF item.has_image_hashes
                  THEN Outcome(IF images.raised THEN Raise("TypeError")
                               ELSE IF Len(images.issued) > 0 THEN <<"Deferred">>
                               ELSE <<"contract", contract>>,
                               Server_cache(c, result.data[1]), images.issued)
                  ELSE Outcome(<<"contract", contract>>,
                               Server_cache(c, result.data[1]), <<>>)
    ELSE Outcome(None, c, <<>>)

(* The cache written as soon as the hash matches, before the try block. *)
get_contract_get_result_cache_first(node_to_ask, contract_hash, result, c) ==
    IF Len(result.data) = 0 THEN Outcome(Raise("TypeError"), c, <<>>)
    ELSE IF digest(result.data[1]) = contract_hash
    THEN IF ~IsJson(result.data[1]) THEN Outcome(Raise("ValueError"), c, <<>>)
         ELSE LET contract == loads(result.data[1])
                  item     == contract.vendor_offer.listing
                  images   == fetch_images(node_to_ask, item.image_hashes)
              IN  IF ~contract_verifies(node_to_ask, contract)
                  THEN Outcome(None, Server_cache(c, result.data[1]), <<>>)
                  ELSE IF item.has_image_hashes
                  THEN Outcome(IF images.raised THEN Raise("TypeError")
                                                ELSE <<"contract", contract>>,
                               Server_cache(c, result.data[1]), images.issued)
                  ELSE Outcome(<<"contract", contract>>,
                               Server_cache(c, result.data[1]), <<>>)
    ELSE Outcome(None, c, <<>>)

get_contract_get_result(node_to_ask, contract_hash, result, c) ==
    IF Len(result.data) = 0 THEN Outcome(Raise("TypeError"), c, <<>>)
    ELSE IF digest(result.data[1]) = contract_hash
    THEN IF ~IsJson(result.data[1]) THEN Outcome(Raise("ValueError"), c, <<>>)
         ELSE LET contract == loads(result.data[1])
                  item     == contract.vendor_offer.listing
                  images   == fetch_images(node_to_ask, item.image_hashes)
              IN  IF ~contract_verifies(node_to_ask, contract)
                  THEN Outcome(None, c, <<>>)
                  ELSE IF item.has_image_hashes
                  THEN Outcome(IF images.raised THEN Raise("TypeError")
                                                ELSE <<"contract", contract>>,
                               Server_cache(c, result.data[1]), images.issued)
                  ELSE Outcome(<<"contract", contract>>,
                               Server_cache(c, result.data[1]), <<>>)
    ELSE Outcome(None, c, <<>>)

get_image_get_result(node_to_ask, image_hash, result, c) ==
    IF Len(result.data) = 0 THEN Outcome(Raise("TypeError"), c, <<>>)
    ELSE IF digest(result.data[1]) = image_hash
    THEN Outcome(<<"image", result.data[1]>>, Server_cache(c, result.data[1]), <<>>)
    ELSE Outcome(None, c, <<>>)

(* The payloads signed by the node asked: result[1][0] is the serialized
   message and result[1][1] the signature. *)
Pgp(public_key, good) == [public_key |-> public_key, good |-> good]
Profiles ==
    [pgp_key : {Pgp("", FALSE), Pgp("pgp", TRUE), Pgp("pgp", FALSE)},
     avatar_hash : {digest(i) : i \in Images},
     header_hash : {digest(i) : i \in Images}]
Metadatas == [avatar_hash : {digest(i) : i \in Images}]
ListingMetadatas ==
    [has_thumbnail_hash : {TRUE}, thumbnail_hash : {digest(i) : i \in Images}]
    \cup [has_thumbnail_hash : {FALSE}, thumbnail_hash : {digest(<<"empty">>)}]
ListingsProtos == {[listing |-> <<>>]}

SignedResults(type, msgs) ==
    {RpcResult(<<b, Sign(k, b)>>) :
        b \in {SerializeToString(type, m) : m \in msgs} \cup {Junk}, k \in {"v", "x"}}
    \cup {RpcFailed}

(* Lines 120-122 and their copies: FALSE when verify, or the read of
   result[1], raises inside the try block. *)
signed_by(node_to_ask, result) ==
    /\ Len(result.data) >= 2
    /\ verify(PubkeyOf(node_to_ask.signed_pubkey), result.data[1], result.data[2])

(* The image is asked for unless a file of its name is in the cache. *)
get_image_unless_cached(node_to_ask, c, image_hash) ==
    IF ~isfile(c, hexlify(image_hash))
    THEN get_image_call(node_to_ask, image_hash)
    ELSE <<>>

(* get_profile.get_result.  The message has no attribute publicKey (line
   125 reads the field as public_key), so line 127 raises AttributeError
   whenever the profile holds a PGP key; the except clause returns None. *)
get_profile_get_result(node_to_ask, result, c) ==
    IF ~signed_by(node_to_ask, result) THEN Outcome(None, c, <<>>)
    ELSE IF ~Parses("Profile", result.data[1]) THEN Outcome(None, c, <<>>)
    ELSE LET p == ParseFromString(result.data[1])
         IN  IF p.pgp_key.public_key # ""
             THEN Outcome(None, c, <<>>)
             ELSE Outcome(<<"profile", p>>, c,
                          get_image_unless_cached(node_to_ask, c, p.avatar_hash)
                          \o get_image_unless_cached(node_to_ask, c, p.header_hash))

get_user_metadata_get_result(node_to_ask, result, c) ==
    IF ~signed_by(node_to_ask, result) THEN Outcome(None, c, <<>>)
    ELSE IF ~Parses("Metadata", result.data[1]) THEN Outcome(None, c, <<>>)
    ELSE LET m == ParseFromString(result.data[1])
         IN  Outcome(<<"metadata", m>>, c,
                     get_image_unless_cached(node_to_ask, c, m.avatar_hash))

get_listings_get_result(node_to_ask, result, c) ==
    IF ~signed_by(node_to_ask, result) THEN Outcome(None, c, <<>>)
    ELSE IF ~Parses("Listings", result.data[1]) THEN Outcome(None, c, <<>>)
    ELSE Outcome(<<"listings", ParseFromString(result.data[1])>>, c, <<>>)

get_contract_metadata_get_result(node_to_ask, result, c) ==
    IF ~signed_by(node_to_ask, result) THEN Outcome(None, c, <<>>)
    ELSE IF ~Parses("ListingMetadata", result.data[1]) THEN Outcome(None, c, <<>>)
    ELSE LET l == ParseFromString(result.data[1])
         IN  Outcome(<<"listing_metadata", l>>, c,
                     IF l.has_thumbnail_hash
                     THEN get_image_unless_cached(node_to_ask, c, l.thumbnail_hash)
                     ELSE <<>>)

----------------------------------------------------------------------------
(* The fetch calls as actions.  last records what ran last: the call made
   (phase "call": the RPC was issued; phase "return": the call returned at
   once) or the callback that ran (phase "callback"), with the result it
   was given, the cache before it, and its outcome. *)

NoResult == [ok |-> FALSE, data |-> <<>>]

Last(phase, call, result, c, out) ==
    [phase |-> phase, op |-> call.op, node |-> call.node, arg |-> call.arg,
     result |-> result, before |-> c, ret |-> out.ret, issued |-> out.issued]

RemoveAt(q, i) == [j \in 1..(Len(q) - 1) |-> IF j < i THEN q[j] ELSE q[j + 1]]

(* Lines 85-88 and their copies: None at once when the ip is unknown, else
   the RPC is issued and the callback added.  A behaviour is one call of
   the application and all that follows from it. *)
Fetch(call) ==
    /\ UNCHANGED msgvars
    /\ cache' = cache
    /\ IF call.node.ip = "None"
       THEN /\ calls' = calls
            /\ last' = Last("return", call, NoResult, cache, Outcome(None, cache, <<>>))
       ELSE /\ calls' = Append(calls, call)
            /\ last' = Last("call", call, NoResult, cache,
                            Outcome(<<"Deferred">>, cache, <<>>))

(* The callback of the i-th call in flight runs on result. *)
Callback(i, result, out) ==
    /\ UNCHANGED msgvars
    /\ cache' = out.cache
    /\ calls' = RemoveAt(calls, i) \o out.issued
    /\ last' = Last("callback", calls[i], result, cache, out)

GoodContract ==
    [vendor_offer |->
        [listing |-> [has_moderators |-> TRUE, moderators |-> <<>>,
                      has_image_hashes |-> FALSE, image_hashes |-> <<>>],
         signature |-> hexlify(Sign("v",
                        dumps([has_moderators |-> TRUE, moderators |-> <<>>,
                               has_image_hashes |-> FALSE, image_hashes |-> <<>>])))]]

(* What the node asked can answer to callGetContract(contract_hash): the
   bytes of that hash, other bytes, or nothing. *)
ContractResults(contract_hash) ==
    {RpcResult(<<b>>) : b \in {contract_hash[2], dumps(GoodContract), Junk}}
    \cup {RpcFailed}

ImageResults == {RpcResult(<<b>>) : b \in Images} \cup {RpcFailed}

get_contract ==
    /\ last.phase = "init"
    /\ \E node_to_ask \in FetchNodes, b \in ContractBytes :
           Fetch(Call("get_contract", node_to_ask, digest(b)))

get_contract_callback ==
    \E i \in 1..Len(calls) :
        /\ calls[i].op = "get_contract"
        /\ \E result \in ContractResults(calls[i].arg) :
               Callback(i, result,
                        get_contract_get_result(calls[i].node, calls[i].arg, result, cache))

get_image ==
    /\ last.phase = "init"
    /\ \E node_to_ask \in FetchNodes, b \in Images :
           Fetch(Call("get_image", node_to_ask, digest(b)))

get_image_callback ==
    \E i \in 1..Len(calls) :
        /\ calls[i].op = "get_image"
        /\ \E result \in ImageResults :
               Callback(i, result,
                        get_image_get_result(calls[i].node, calls[i].arg, result, cache))

get_profile ==
    /\ last.phase = "init"
    /\ \E node_to_ask \in FetchNodes : Fetch(Call("get_profile", node_to_ask, None))

get_profile_callback ==
    \E i \in 1..Len(calls) :
        /\ calls[i].op = "get_profile"
        /\ \E result \in SignedResults("Profile", Profiles) :
               Callback(i, result, get_profile_get_result(calls[i].node, result, cache))

get_user_metadata ==
    /\ last.phase = "init"
    /\ \E node_to_ask \in FetchNodes : Fetch(Call("get_user_metadata", node_to_ask, None))

get_user_metadata_callback ==
    \E i \in 1..Len(calls) :
        /\ calls[i].op = "get_user_metadata"
        /\ \E result \in SignedResults("Metadata", Metadatas) :
               Callback(i, result,
                        get_user_metadata_get_result(calls[i].node, result, cache))

get_listings ==
    /\ last.phase = "init"
    /\ \E node_to_ask \in FetchNodes : Fetch(Call("get_listings", node_to_ask, None))

get_listings_callback ==
    \E i \in 1..Len(calls) :
        /\ calls[i].op = "get_listings"
        /\ \E result \in SignedResults("Listings", ListingsProtos) :
               Callback(i, result, get_listings_get_result(calls[i].node, result, cache))

get_contract_metadata ==
    /\ last.phase = "init"
    /\ \E node_to_ask \in FetchNodes, b \in {dumps(GoodContract)} :
           Fetch(Call("get_contract_metadata", node_to_ask, digest(b)))

get_contract_metadata_callback ==
    \E i \in 1..Len(calls) :
        /\ calls[i].op = "get_contract_metadata"
        /\ \E result \in SignedResults("ListingMetadata", ListingMetadatas) :
               Callback(i, result,
                        get_contract_metadata_get_result(calls[i].node, result, cache))

NoCall == Call("none", Vendor, None)

(* Nothing asked of the node yet. *)
Idle ==
    /\ app = [op |-> "none"]
    /\ rpcs = <<>>
    /\ sets = <<>>
    /\ deletes = <<>>
    /\ notified = <<>>
    /\ transport = TRUE
    /\ dl = <<>>
    /\ ds = <<>>
    /\ db = {}

(* The cache folder outlives the process: it holds what earlier runs
   cached. *)
RECURSIVE CacheOf(_)
CacheOf(S) ==
    IF S = {} THEN {}
    ELSE LET b == CHOOSE x \in S : TRUE IN Server_cache(CacheOf(S \ {b}), b)

FetchInit ==
    /\ cache \in {CacheOf(S) : S \in SUBSET Images}
    /\ calls = <<>>
    /\ last = Last("init", NoCall, NoResult, cache, Outcome(None, cache, <<>>))
    /\ Idle

FetchNext ==
    \/ get_contract
    \/ get_contract_callback
    \/ get_image
    \/ get_image_callback
    \/ get_profile
    \/ get_profile_callback
    \/ get_user_metadata
    \/ get_user_metadata_callback
    \/ get_listings
    \/ get_listings_callback
    \/ get_contract_metadata
    \/ get_contract_metadata_callback

SpecFetch == FetchInit /\ [][FetchNext]_vars

----------------------------------------------------------------------------
(* Claims on the fetch calls *)

(* The three checks of a contract, stated on the bytes returned. *)
HashMatches(l) == Len(l.result.data) > 0 /\ digest(l.result.data[1]) = l.arg

VendorSigned(l) ==
    LET offer == loads(l.result.data[1]).vendor_offer
    IN  unhexlify(offer.signature)
            = Sign(PubkeyOf(l.node.signed_pubkey), dumps(offer.listing))

ModeratorTrusted(m) ==
    LET key == unhexlify(m.guid_key)
        spk == SignedPubkey(unhexlify(m.guid_sig), key)
    IN  /\ PowWindow(spk) < 50
        /\ m.guid = hexlify(GuidOf(spk))
        /\ unhexlify(m.enc_sig) = Sign(key, unhexlify(m.enc_key))
        /\ unhexlify(m.bitcoin_sig) = Sign(key, unhexlify(m.bitcoin_key))

ModeratorsTrusted(l) ==
    LET mods == loads(l.result.data[1]).vendor_offer.listing.moderators
    IN  \A i \in 1..Len(mods) : ModeratorTrusted(mods[i])

IsContractDocument(l) == Len(l.result.data) > 0 /\ IsJson(l.result.data[1])

ContractTrusted(l) ==
    HashMatches(l) /\ IsContractDocument(l) /\ VendorSigned(l) /\ ModeratorsTrusted(l)

(* C1: get_contract yields a contract only when the bytes hash to the hash
   asked for, the vendor's signature over the listing verifies against the
   key of the node asked and every listed moderator passes the proof of
   work and both sub-key signature checks; what it yields is then the whole
   parsed document.  When the node answers with a contract document and
   one of the checks fails (the hash, the vendor's signature, a moderator
   at any position), the outcome is None. *)
C1_ContractOnlyWhenVerified ==
    (last.op = "get_contract" /\ last.phase # "init") =>
        /\ last.ret[1] = "contract" =>
               /\ last.phase = "callback"
               /\ ContractTrusted(last)
               /\ last.ret = <<"contract", loads(last.result.data[1])>>
        /\ (last.phase = "callback" /\ IsContractDocument(last)
                /\ ~ContractTrusted(last)) => last.ret = None

(* C1, witnessed: the hash matches, the vendor's signature verifies, the
   first moderator passes, the second does not, and the outcome is None. *)
C1_Witness ==
    /\ last.op = "get_contract" /\ last.phase = "callback"
    /\ IsContractDocument(last) /\ HashMatches(last) /\ VendorSigned(last)
    /\ LET mods == loads(last.result.data[1]).vendor_offer.listing.moderators
       IN  Len(mods) = 2 /\ ModeratorTrusted(mods[1]) /\ ~ModeratorTrusted(mods[2])
    /\ last.ret = None

(* All the verification steps of a fetch call passed on the result given
   to its callback. *)
SignedAndParsed(l, type) ==
    /\ Len(l.result.data) >= 2
    /\ l.result.data[2] = Sign(PubkeyOf(l.node.signed_pubkey), l.result.data[1])
    /\ Parses(type, l.result.data[1])

VerificationPassed(l) ==
    CASE l.op = "get_contract"          -> ContractTrusted(l)
      [] l.op = "get_image"             -> HashMatches(l)
      [] l.op = "get_profile"           -> SignedAndParsed(l, "Profile")
      [] l.op = "get_user_metadata"     -> SignedAndParsed(l, "Metadata")
      [] l.op = "get_listings"          -> SignedAndParsed(l, "Listings")
      [] l.op = "get_contract_metadata" -> SignedAndParsed(l, "ListingMetadata")
      [] OTHER                          -> FALSE

(* C2: a fetch call writes to the cache and issues a dependent get_image
   only in a callback whose verification steps have all passed: the call
   itself and a callback in which a step fails leave the cache as it was
   and issue nothing. *)
C2_VerifyBeforeCacheAndFetch ==
    (cache # last.before \/ Len(last.issued) > 0) =>
        (last.phase = "callback" /\ VerificationPassed(last))

(* C2, witnessed: a verified contract was cached and its image asked for. *)
C2_Witness ==
    /\ last.op = "get_contract" /\ last.phase = "callback"
    /\ cache # last.before
    /\ Len(last.issued) > 0
    /\ \E i \in 1..Len(calls) : calls[i].op = "get_image"

----------------------------------------------------------------------------
(* get_followers and get_following *)

Empty == <<"">>

Follower(spk, guidspk, following, signer) ==
    LET unsigned == [guid |-> GuidOf(guidspk), following |-> following,
                     signed_pubkey |-> spk, metadata |-> <<"meta", PubkeyOf(spk)>>,
                     signature |-> Empty]
    IN  [unsigned EXCEPT !.signature = Sign(signer, SerializeToString("Follower", unsigned))]

User(spk, guidspk, signer) ==
    [guid |-> GuidOf(guidspk), signed_pubkey |-> spk,
     metadata |-> <<"meta", PubkeyOf(spk)>>,
     signature |-> Sign(signer, SerializeToString("Metadata", <<"meta", PubkeyOf(spk)>>))]

OtherId == GuidOf(SignedPubkey("n0", "x"))

(* What a list can hold: two sound entries, one whose signature is by
   another key, one whose hash misses the proof of work, one whose guid is
   not the hash of its key and, for a follower, one that follows someone
   else. *)
FollowerPool ==
    { Follower(SignedPubkey("n0", "a"), SignedPubkey("n0", "a"), Vendor.id, "a"),
      Follower(SignedPubkey("n49", "b"), SignedPubkey("n49", "b"), Vendor.id, "b"),
      Follower(SignedPubkey("n0", "a"), SignedPubkey("n0", "a"), Vendor.id, "x"),
      Follower(SignedPubkey("n50", "p"), SignedPubkey("n50", "p"), Vendor.id, "p"),
      Follower(SignedPubkey("n0", "g"), SignedPubkey("n0", "a"), Vendor.id, "g"),
      Follower(SignedPubkey("n0", "w"), SignedPubkey("n0", "w"), OtherId, "w") }

UserPool ==
    { User(SignedPubkey("n0", "a"), SignedPubkey("n0", "a"), "a"),
      User(SignedPubkey("n49", "b"), SignedPubkey("n49", "b"), "b"),
      User(SignedPubkey("n0", "a"), SignedPubkey("n0", "a"), "x"),
      User(SignedPubkey("n50", "p"), SignedPubkey("n50", "p"), "p"),
      User(SignedPubkey("n0", "g"), SignedPubkey("n0", "a"), "g") }

FollowersProtos == [followers : SeqsUpTo(FollowerPool, MaxFollowers)]
FollowingProtos == [users : SeqsUpTo(UserPool, MaxFollowers)]

ClearField_signature(m) == [m EXCEPT !.signature = Empty]

(* RepeatedCompositeFieldContainer.remove: the first element equal to x
   is taken out. *)
remove(list, x) ==
    LET k == CHOOSE j \in 1..Len(list) :
                 list[j] = x /\ \A i \in 1..(j - 1) : list[i] # x
    IN  RemoveAt(list, k)

(* get_followers.get_response, lines 323-333: the try block of the loop
   body; FALSE when it raises. *)
follower_ok(node_to_ask, follower) ==
    LET v_key     == PubkeyOf(follower.signed_pubkey)
        signature == follower.signature
    IN  /\ verify(v_key, SerializeToString("Follower", ClearField_signature(follower)),
                  signature)
        /\ ~(\/ sha512_window(follower.signed_pubkey) >= PowLimit
             \/ hexlify(follower.guid) # sha512_head(follower.signed_pubkey))
        /\ follower.following = node_to_ask.id

(* The loop of lines 322-335 from its i-th pass on: the loop walks the
   list by position while its body takes elements out of the same list. *)
RECURSIVE followers_loop(_, _, _)
followers_loop(node_to_ask, followers, i) ==
    IF i > Len(followers) THEN followers
    ELSE LET follower == followers[i]
             cleared  == [followers EXCEPT ![i] = ClearField_signature(follower)]
         IN  IF follower_ok(node_to_ask, follower)
             THEN followers_loop(node_to_ask, cleared, i + 1)
             ELSE followers_loop(node_to_ask,
                                 remove(cleared, ClearField_signature(follower)), i + 1)

get_followers_get_response(node_to_ask, response, c) ==
    IF ~signed_by(node_to_ask, response) THEN Outcome(None, c, <<>>)
    ELSE IF ~Parses("Followers", response.data[1]) THEN Outcome(None, c, <<>>)
    ELSE LET f == ParseFromString(response.data[1])
         IN  Outcome(<<"followers", followers_loop(node_to_ask, f.followers, 1)>>,
                     c, <<>>)

(* get_following.get_response, lines 361-368. *)
user_ok(user) ==
    LET v_key     == PubkeyOf(user.signed_pubkey)
        signature == user.signature
    IN  /\ verify(v_key, SerializeToString("Metadata", user.metadata), signature)
        /\ ~(\/ sha512_window(user.signed_pubkey) >= PowLimit
             \/ hexlify(user.guid) # sha512_head(user.signed_pubkey))

RECURSIVE users_loop(_, _)
users_loop(users, i) ==
    IF i > Len(users) THEN users
    ELSE IF user_ok(users[i])
    THEN users_loop(users, i + 1)
    ELSE users_loop(remove(users, users[i]), i + 1)

get_following_get_response(node_to_ask, response, c) ==
    IF ~signed_by(node_to_ask, response) THEN Outcome(None, c, <<>>)
    ELSE IF ~Parses("Following", response.data[1]) THEN Outcome(None, c, <<>>)
    ELSE LET f == ParseFromString(response.data[1])
         IN  Outcome(<<"following", users_loop(f.users, 1)>>, c, <<>>)

(* Lines 338-339 and 373-374: the RPC is issued whatever the node's ip. *)
Ask(call) ==
    /\ UNCHANGED msgvars
    /\ cache' = cache
    /\ calls' = Append(calls, call)
    /\ last' = Last("call", call, NoResult, cache, Outcome(<<"Deferred">>, cache, <<>>))

get_followers ==
    /\ last.phase = "init"
    /\ \E node_to_ask \in FetchNodes : Ask(Call("get_followers", node_to_ask, None))

get_followers_callback ==
    \E i \in 1..Len(calls) :
        /\ calls[i].op = "get_followers"
        /\ \E response \in SignedResults("Followers", FollowersProtos) :
               Callback(i, response,
                        get_followers_get_response(calls[i].node, response, cache))

get_following ==
    /\ last.phase = "init"
    /\ \E node_to_ask \in FetchNodes : Ask(Call("get_following", node_to_ask, None))

get_following_callback ==
    \E i \in 1..Len(calls) :
        /\ calls[i].op = "get_following"
        /\ \E response \in SignedResults("Following", FollowingProtos) :
               Callback(i, response,
                        get_following_get_response(calls[i].node, response, cache))

FollowInit ==
    /\ cache = {}
    /\ calls = <<>>
    /\ last = Last("init", NoCall, NoResult, cache, Outcome(None, cache, <<>>))
    /\ Idle

FollowNext ==
    \/ get_followers
    \/ get_followers_callback
    \/ get_following
    \/ get_following_callback

SpecFollow == FollowInit /\ [][FollowNext]_vars

(* The checks the claim names, on an entry as it was received. *)
FollowerSigned(e) ==
    e.signature = Sign(PubkeyOf(e.signed_pubkey),
                       SerializeToString("Follower", [e EXCEPT !.signature = Empty]))
UserSigned(e) ==
    e.signature = Sign(PubkeyOf(e.signed_pubkey),
                       SerializeToString("Metadata", e.metadata))
GuidProven(e) ==
    PowWindow(e.signed_pubkey) < 50 /\ e.guid = GuidOf(e.signed_pubkey)

FollowerPasses(e) == FollowerSigned(e) /\ GuidProven(e)
UserPasses(e) == UserSigned(e) /\ GuidProven(e)

Received(l) == ParseFromString(l.result.data[1])
OuterSigned(l, type) ==
    l.phase = "callback" /\ SignedAndParsed(l, type)

(* The followers a list holds that follow the node asked: the claim is
   stated on lists of such entries, the others being C22's. *)
FollowsAsked(l) ==
    \A i \in 1..Len(Received(l).followers) :
        Received(l).followers[i].following = l.node.id

WithoutSignatures(list) == [i \in 1..Len(list) |-> [list[i] EXCEPT !.signature = Empty]]

(* C3, as claimed: when the outer signature verifies, get_followers and
   get_following return exactly the entries that pass the signature check
   and the GUID proof of work, in their order, whatever the number and the
   arrangement of the entries that fail. *)
C3_ExactlyTheValidEntries ==
    /\ (last.op = "get_followers" /\ OuterSigned(last, "Followers") /\ FollowsAsked(last)) =>
           /\ last.ret[1] = "followers"
           /\ WithoutSignatures(last.ret[2])
                = WithoutSignatures(SelectSeq(Received(last).followers, FollowerPasses))
    /\ (last.op = "get_following" /\ OuterSigned(last, "Following")) =>
           /\ last.ret[1] = "following"
           /\ last.ret[2] = SelectSeq(Received(last).users, UserPasses)

(* C22, as claimed: when the outer signature verifies, every entry that
   get_followers returns attests following the node that was asked: an
   entry that follows another identity is taken out of the list, whatever
   entries stand before it. *)
C22_KeptFollowersFollowTheNodeAsked ==
    (last.op = "get_followers" /\ OuterSigned(last, "Followers")) =>
        /\ last.ret[1] = "followers"
        /\ \A i \in 1..Len(last.ret[2]) : last.ret[2][i].following = last.node.id

----------------------------------------------------------------------------
(* Messages: send_message, get_messages, confirm_order *)

(* The local node and its keys. *)
SelfKey == "s"
SelfSpk == SignedPubkey("n0", SelfKey)
Self == Node(GuidOf(SelfSpk), "10.0.0.2", SelfSpk)

(* PrivateKey(signing_key.encode()).public_key: the encryption key of the
   owner of a signing key; PrivateKey.generate() draws a fresh one. *)
EncPub(key) == <<"curve", key>>
Ephemerals == {"e1", "e2"}

(* nacl Box(private, public).encrypt and .decrypt: a box made by one key
   pair for another opens with the other's private key and the one's
   public key only; decrypt raises CryptoError otherwise. *)
encrypt(private, public, plaintext) == <<"box", EncPub(private), public, plaintext>>
Opens(private, public, ciphertext) ==
    /\ ciphertext[1] = "box"
    /\ ciphertext[2] = public
    /\ ciphertext[3] = EncPub(private)
decrypt(ciphertext) == ciphertext[4]

(* len() of a message: a text <<"text", n>> has n characters, the JSON
   of a document as many as the document's chars field says. *)
len(message) == IF message[1] = "json" THEN message[2].chars ELSE message[2]

MaxMessageLen == 1500

(* objects.Plaintext_Message.Type: Value gives the number of a type name,
   Name the name of a number. *)
Type_Value(name) == <<"enum", name>>
Type_Name(number) == number[2]

(* Lines 415-429: the Plaintext_Message of the local node, signed over
   its serialization with the signature field empty. *)
Plaintext(key, spk, guid, message_type, message, subject) ==
    [sender_guid |-> guid, signed_pubkey |-> spk, encryption_pubkey |-> EncPub(key),
     type |-> message_type, message |-> message,
     subject |-> IF subject = None THEN Empty ELSE subject,
     handle |-> "@handle", avatar_hash |-> digest(<<"img", "i1">>), timestamp |-> "now",
     signature |-> Empty]

SignedPlaintext(signer, p) ==
    [p EXCEPT !.signature = Sign(signer, SerializeToString("Plaintext_Message", p))]

SetRequest(keyword, key, value) == [keyword |-> keyword, key |-> key, value |-> value]

(* send_message.get_response, lines 437-439. *)
send_message_get_response_on_success(receiving_node, pkephem, ciphertext, response) ==
    IF response.ok
    THEN <<SetRequest(digest(receiving_node.id), pkephem, ciphertext)>>
    ELSE <<>>

send_message_get_response(receiving_node, pkephem, ciphertext, response) ==
    IF ~response.ok
    THEN <<SetRequest(digest(receiving_node.id), pkephem, ciphertext)>>
    ELSE <<>>

Effect(issued, written) == [issued |-> issued, written |-> written]

(* send_message, lines 412-443, on the node that holds signing_key: the
   RPC it issues and the overlay write it makes before it returns. *)
send_message_of(signing_key, node, receiving_node, public_key, message_type, message, subject, store_only, skephem) ==
    IF len(message) > MaxMessageLen THEN Effect(<<>>, <<>>)
    ELSE LET p == SignedPlaintext(signing_key,
                      Plaintext(signing_key, node.signed_pubkey, node.id, message_type,
                                message, subject))
             pkephem == EncPub(skephem)
             ciphertext == encrypt(skephem, unhexlify(public_key),
                                   SerializeToString("Plaintext_Message", p))
         IN  IF ~store_only
             THEN Effect(<<Call("callMessage", receiving_node,
                                [pkephem |-> pkephem, ciphertext |-> ciphertext])>>, <<>>)
             ELSE Effect(<<>>, send_message_get_response(receiving_node, pkephem,
                                                         ciphertext, RpcFailed))

(* send_message on the local node. *)
send_message_body(receiving_node, public_key, message_type, message, subject, store_only, skephem) ==
    send_message_of(SelfKey, Self, receiving_node, public_key, message_type, message, subject,
                    store_only, skephem)

(* The last step: result is the answer of an RPC the callback ran on,
   value what a call of the overlay or of the reactor ended with. *)
MsgLast(phase, op, result, ret) ==
    [phase |-> phase, op |-> op, result |-> result, value |-> None, ret |-> ret]
MsgLastValue(phase, op, value, ret) ==
    [phase |-> phase, op |-> op, result |-> NoResult, value |-> value, ret |-> ret]

BuyerSpk == SignedPubkey("n0", "r")
Buyer == Node(GuidOf(BuyerSpk), "10.0.0.3", BuyerSpk)
Texts == {<<"text", 0>>, <<"text", MaxMessageLen>>, <<"text", MaxMessageLen + 1>>}
Subjects == {None, <<"str", "subject">>}
Acks == {RpcFailed, RpcResult(<<"True">>), RpcResult(<<"False">>)}

send_message ==
    /\ app.op = "none"
    /\ \E message \in Texts, subject \in Subjects, store_only \in BOOLEAN,
          skephem \in Ephemerals :
          LET public_key == hexlify(EncPub("r"))
              eff == send_message_body(Buyer, public_key, Type_Value("CHAT"), message, subject,
                                       store_only, skephem)
          IN  /\ app' = [op |-> "send_message", receiving_node |-> Buyer,
                         public_key |-> public_key, message_type |-> Type_Value("CHAT"),
                         message |-> message, subject |-> subject,
                         store_only |-> store_only, skephem |-> skephem]
              /\ calls' = calls \o eff.issued
              /\ rpcs' = rpcs \o eff.issued
              /\ sets' = sets \o eff.written
              /\ last' = MsgLast("return", "send_message", NoResult, None)
    /\ UNCHANGED <<cache, db, deletes, notified, transport, dl, ds>>

callMessage_callback ==
    /\ \E i \in 1..Len(calls) :
          /\ calls[i].op = "callMessage"
          /\ \E response \in Acks :
                /\ sets' = sets \o send_message_get_response(calls[i].node,
                               calls[i].arg.pkephem, calls[i].arg.ciphertext, response)
                /\ last' = MsgLast("callback", "callMessage", response, None)
          /\ calls' = RemoveAt(calls, i)
    /\ UNCHANGED <<cache, db, app, rpcs, deletes, notified, transport, dl, ds>>

(* What the overlay can hold under the local node's key: messages sealed
   to the local node by two senders, bytes that are no Value, a box that
   was tampered with, a box sealed to another key, a box around bytes that
   are no message, a message signed by another key, and messages of
   senders whose hash misses the proof of work or whose guid is not the
   hash of their key. *)
StoredValue(skephem, ciphertext) ==
    SerializeToString("Value", [valueKey |-> EncPub(skephem), serializedData |-> ciphertext])

Sealed(skephem, p) ==
    StoredValue(skephem,
                encrypt(skephem, EncPub(SelfKey), SerializeToString("Plaintext_Message", p)))

MessageFrom(key, spk, guidspk, signer) ==
    SignedPlaintext(signer, Plaintext(key, spk, GuidOf(guidspk), Type_Value("CHAT"), <<"text", 5>>,
                                      <<"str", key>>))

Tampered(value) ==
    LET v == ParseFromString(value)
    IN  SerializeToString("Value",
            [v EXCEPT !.serializedData = <<"garbled", v.serializedData>>])

MailboxPool ==
    { Sealed("e1", MessageFrom("a", SignedPubkey("n0", "a"), SignedPubkey("n0", "a"), "a")),
      Sealed("e2", MessageFrom("b", SignedPubkey("n49", "b"), SignedPubkey("n49", "b"), "b")),
      Junk,
      Tampered(Sealed("e3", MessageFrom("a", SignedPubkey("n0", "a"),
                                        SignedPubkey("n0", "a"), "a"))),
      StoredValue("e4", encrypt("e4", EncPub("r"), SerializeToString("Plaintext_Message",
                        MessageFrom("a", SignedPubkey("n0", "a"), SignedPubkey("n0", "a"), "a")))),
      StoredValue("e5", encrypt("e5", EncPub(SelfKey), Junk)),
      Sealed("e6", MessageFrom("a", SignedPubkey("n0", "a"), SignedPubkey("n0", "a"), "x")),
      Sealed("e7", MessageFrom("p", SignedPubkey("n50", "p"), SignedPubkey("n50", "p"), "p")),
      Sealed("e8", MessageFrom("g", SignedPubkey("n0", "g"), SignedPubkey("n0", "a"), "g")) }

Mailboxes == {<<"messages", m>> : m \in SeqsUpTo(MailboxPool, MaxMailbox)} \cup {None}

Notification(p) ==
    [guid |-> p.sender_guid, encryption_pubkey |-> p.encryption_pubkey,
     subject |-> p.subject, type |-> Type_Name(p.type), message |-> p.message]

DeleteRequest(keyword, key) ==
    [keyword |-> keyword, key |-> key, signature |-> Sign(SelfKey, key)]

(* The inner try block without ClearField: the signature is verified
   over the message as it was received. *)
open_message_signature_kept(value) ==
    IF ~Opens(SelfKey, value.valueKey, value.serializedData) THEN <<>>
    ELSE IF ~Parses("Plaintext_Message", decrypt(value.serializedData)) THEN <<>>
    ELSE LET p == ParseFromString(decrypt(value.serializedData))
         IN  IF ~verify(PubkeyOf(p.signed_pubkey),
                        SerializeToString("Plaintext_Message", p), p.signature)
             THEN <<>>
             ELSE IF \/ sha512_window(p.signed_pubkey) >= PowLimit
                     \/ hexlify(p.sender_guid) # sha512_head(p.signed_pubkey)
             THEN <<>>
             ELSE <<Notification(p)>>

(* parse_messages, lines 457-471: the inner try block on a parsed Value;
   the notification it makes, none when it raises. *)
open_message(value) ==
    IF ~Opens(SelfKey, value.valueKey, value.serializedData) THEN <<>>
    ELSE IF ~Parses("Plaintext_Message", decrypt(value.serializedData)) THEN <<>>
    ELSE LET received  == ParseFromString(decrypt(value.serializedData))
             signature == received.signature
             p         == [received EXCEPT !.signature = Empty]
         IN  IF ~verify(PubkeyOf(p.signed_pubkey),
                        SerializeToString("Plaintext_Message", p), signature)
             THEN <<>>
             ELSE IF \/ sha512_window(p.signed_pubkey) >= PowLimit
                     \/ hexlify(p.sender_guid) # sha512_head(p.signed_pubkey)
             THEN <<>>
             ELSE <<Notification(p)>>

(* The loop of line 452 with one try block around all of it. *)
RECURSIVE parse_messages_stop_at_failure(_)
parse_messages_stop_at_failure(messages) ==
    IF Len(messages) = 0 THEN [notified |-> <<>>, deleted |-> <<>>]
    ELSE IF ~Parses("Value", Head(messages)) THEN [notified |-> <<>>, deleted |-> <<>>]
    ELSE LET value == ParseFromString(Head(messages))
             rest  == parse_messages_stop_at_failure(Tail(messages))
         IN  IF Len(open_message(value)) = 0 THEN [notified |-> <<>>, deleted |-> <<>>]
             ELSE [notified |-> open_message(value) \o rest.notified,
                   deleted  |-> <<DeleteRequest(Self.id, value.valueKey)>> \o rest.deleted]

(* parse_messages, lines 452-477: the loop over the messages; the calls of
   listener.notify and of kserver.delete it makes, in order. *)
RECURSIVE parse_messages_loop(_)
parse_messages_loop(messages) ==
    IF Len(messages) = 0 THEN [notified |-> <<>>, deleted |-> <<>>]
    ELSE LET rest == parse_messages_loop(Tail(messages))
         IN  IF ~Parses("Value", Head(messages)) THEN rest
             ELSE LET value == ParseFromString(Head(messages))
                  IN  [notified |-> open_message(value) \o rest.notified,
                       deleted  |-> <<DeleteRequest(Self.id, value.valueKey)>>
                                    \o rest.deleted]

parse_messages(messages) ==
    IF messages # None
    THEN parse_messages_loop(messages[2])
    ELSE [notified |-> <<>>, deleted |-> <<>>]

(* get_messages that asks the overlay whatever the transport is. *)
get_messages_body_unguarded ==
    <<Call("kserver.get", Self, Self.id)>>

(* get_messages, lines 447-448 and 478: one retry is scheduled while the
   transport is not set, else the values under the node's id are asked of
   the overlay. *)
get_messages_body ==
    IF ~transport
    THEN <<Call("deferLater", Self, None)>>
    ELSE <<Call("kserver.get", Self, Self.id)>>

get_messages ==
    /\ app.op = "none"
    /\ app' = [op |-> "get_messages"]
    /\ calls' = calls \o get_messages_body
    /\ rpcs' = rpcs \o SelectSeq(get_messages_body, LAMBDA c : c.op # "deferLater")
    /\ last' = MsgLast("return", "get_messages", NoResult, None)
    /\ UNCHANGED <<cache, db, sets, deletes, notified, transport, dl, ds>>

(* The delayed call of get_messages comes due. *)
get_messages_retry ==
    /\ \E i \in 1..Len(calls) :
          /\ calls[i].op = "deferLater"
          /\ calls' = RemoveAt(calls, i) \o get_messages_body
    /\ rpcs' = rpcs \o SelectSeq(get_messages_body, LAMBDA c : c.op # "deferLater")
    /\ last' = MsgLast("return", "get_messages", NoResult, None)
    /\ UNCHANGED <<cache, db, app, sets, deletes, notified, transport, dl, ds>>

(* The transport is set by the start of the node. *)
transport_initialized ==
    /\ ~transport
    /\ transport' = TRUE
    /\ UNCHANGED <<cache, db, calls, last, app, rpcs, sets, deletes, notified, dl, ds>>

parse_messages_callback ==
    /\ \E i \in 1..Len(calls) :
          /\ calls[i].op = "kserver.get"
          /\ calls' = RemoveAt(calls, i)
          /\ \E messages \in Mailboxes :
                /\ notified' = notified \o parse_messages(messages).notified
                /\ deletes' = deletes \o parse_messages(messages).deleted
                /\ last' = MsgLastValue("callback", "get_messages", messages, None)
    /\ UNCHANGED <<cache, db, app, rpcs, sets, transport, dl, ds>>

(* The contract confirm_order is given: the buyer's order names the key to
   encrypt to; chars is the length of the JSON of the confirmation. *)
ConfirmationSizes == {200, MaxMessageLen, MaxMessageLen + 1}
ConfirmContracts ==
    {[vendor_offer |-> [listing |-> "listing"],
      buyer_order |-> [order |-> [id |-> [pubkeys |-> [encryption |-> hexlify(EncPub("r"))]]]],
      vendor_order_confirmation |-> [invoice |-> "paid", chars |-> n]] :
        n \in ConfirmationSizes}

(* del contract_dict["vendor_order_confirmation"] *)
del(dict, field) == [f \in DOMAIN dict \ {field} |-> dict[f]]

(* confirm_order.get_node.parse_response, lines 514-530: what it returns,
   and what the send_message it calls issues and writes. *)
confirm_order_parse_response(guid, contract, response, skephem) ==
    IF response.ok /\ response.data[1] = "True"
    THEN [ret |-> <<"bool", TRUE>>, eff |-> Effect(<<>>, <<>>)]
    ELSE IF ~response.ok
    THEN LET contract_dict == del(loads(dumps(contract)), "vendor_order_confirmation")
             order_id      == hexlify(digest(dumps(contract_dict)))
         IN  [ret |-> <<"bool", TRUE>>,
              eff |-> send_message_body(Node(guid, "None", <<"spk", "", "">>),
                          contract.buyer_order.order.id.pubkeys.encryption,
                          Type_Value("ORDER"), dumps(contract.vendor_order_confirmation), order_id,
                          TRUE, skephem)]
    ELSE [ret |-> <<"bool", FALSE>>, eff |-> Effect(<<>>, <<>>)]

(* confirm_order, line 542: the buyer's guid, given in hex, is resolved. *)
confirm_order ==
    /\ app.op = "none"
    /\ \E contract \in ConfirmContracts :
          LET guid == hexlify(Buyer.id)
              call == Call("resolve", Self, [guid |-> guid, contract |-> contract,
                                             resolved |-> unhexlify(guid)])
          IN  /\ app' = [op |-> "confirm_order", guid |-> guid, contract |-> contract]
              /\ calls' = Append(calls, call)
              /\ rpcs' = Append(rpcs, call)
    /\ last' = MsgLast("return", "confirm_order", NoResult, <<"Deferred">>)
    /\ UNCHANGED <<cache, db, sets, deletes, notified, transport, dl, ds>>

(* confirm_order.get_node, lines 532-541, on the node resolve found or
   None. *)
get_node ==
    /\ \E i \in 1..Len(calls), skephem \in Ephemerals :
          /\ calls[i].op = "resolve"
          /\ \E node_to_ask \in {None, <<"node", Buyer>>} :
                LET guid == calls[i].arg.guid
                    contract == calls[i].arg.contract
                    public_key == contract.buyer_order.order.id.pubkeys.encryption
                    ciphertext == encrypt(skephem, unhexlify(public_key), dumps(contract))
                    call == Call("callOrderConfirmation", node_to_ask[2],
                                 [guid |-> guid, contract |-> contract,
                                  pkephem |-> EncPub(skephem), ciphertext |-> ciphertext])
                    out == confirm_order_parse_response(guid, contract, RpcFailed, skephem)
                IN  IF node_to_ask # None
                    THEN /\ calls' = Append(RemoveAt(calls, i), call)
                         /\ rpcs' = Append(rpcs, call)
                         /\ sets' = sets
                         /\ last' = MsgLastValue("callback", "get_node", node_to_ask, None)
                    ELSE /\ calls' = RemoveAt(calls, i) \o out.eff.issued
                         /\ rpcs' = rpcs \o out.eff.issued
                         /\ sets' = sets \o out.eff.written
                         /\ last' = MsgLastValue("callback", "get_node", node_to_ask, None)
    /\ UNCHANGED <<cache, db, app, deletes, notified, transport, dl, ds>>

parse_response_callback ==
    /\ \E i \in 1..Len(calls), skephem \in Ephemerals :
          /\ calls[i].op = "callOrderConfirmation"
          /\ \E response \in Acks :
                LET out == confirm_order_parse_response(calls[i].arg.guid,
                               calls[i].arg.contract, response, skephem)
                IN  /\ calls' = RemoveAt(calls, i) \o out.eff.issued
                    /\ rpcs' = rpcs \o out.eff.issued
                    /\ sets' = sets \o out.eff.written
                    /\ last' = MsgLast("callback", "parse_response", response, out.ret)
    /\ UNCHANGED <<cache, db, app, deletes, notified, transport, dl, ds>>

MsgInit ==
    /\ cache = {}
    /\ calls = <<>>
    /\ last = MsgLast("init", "none", NoResult, None)
    /\ app = [op |-> "none"]
    /\ rpcs = <<>>
    /\ sets = <<>>
    /\ deletes = <<>>
    /\ notified = <<>>
    /\ transport \in BOOLEAN
    /\ dl = <<>>
    /\ ds = <<>>
    /\ db = {}

MsgNext ==
    \/ send_message
    \/ callMessage_callback
    \/ get_messages
    \/ get_messages_retry
    \/ transport_initialized
    \/ parse_messages_callback
    \/ confirm_order
    \/ get_node
    \/ parse_response_callback

SpecMsg == MsgInit /\ [][MsgNext]_vars

(* The reactor runs what deferLater scheduled, and the start of the node
   sets the transport. *)
SpecMsgFair ==
    SpecMsg /\ WF_vars(get_messages_retry) /\ WF_vars(transport_initialized)

----------------------------------------------------------------------------
(* Claims on the messages *)

CallsOf(op) == SelectSeq(rpcs, LAMBDA c : c.op = op)

(* C4: a message of at most 1500 bytes is handed to callMessage exactly
   when store_only is not set, and (ephemeral public key, ciphertext) is
   written to the overlay under digest(recipient id) exactly when
   store_only is set or the callMessage RPC reported failure; a message
   delivered directly is never written.  A message of more than 1500 bytes
   causes neither. *)
C4_StoreExactlyWhenNotDelivered ==
    app.op = "send_message" =>
        LET accepted  == len(app.message) <= 1500
            answered  == last.op = "callMessage" /\ last.phase = "callback"
            pkephem   == EncPub(app.skephem)
        IN  /\ Len(CallsOf("callMessage"))
                 = (IF accepted /\ ~app.store_only THEN 1 ELSE 0)
            /\ Len(sets) = (IF accepted /\ (app.store_only \/ (answered /\ ~last.result.ok))
                            THEN 1 ELSE 0)
            /\ \A i \in 1..Len(sets) :
                   /\ sets[i].keyword = digest(app.receiving_node.id)
                   /\ sets[i].key = pkephem
                   /\ Opens("r", pkephem, sets[i].value)
                   /\ unhexlify(app.public_key) = EncPub("r")

(* C4, witnessed: a message of exactly 1500 bytes was sent directly, the
   RPC reported failure, and the message is in the overlay. *)
C4_Witness ==
    /\ app.op = "send_message" /\ len(app.message) = 1500 /\ ~app.store_only
    /\ last.op = "callMessage" /\ last.phase = "callback" /\ ~last.result.ok
    /\ Len(sets) = 1

Drained == last.op = "get_messages" /\ last.phase = "callback" /\ last.value # None
Mailbox == last.value[2]

IsValue(message) == Parses("Value", message)

(* C5: get_messages asks the overlay to delete every entry the overlay
   returned, whichever step failed for it, the parsing of the stored value
   included: of a mailbox of 3 entries with a malformed one, all 3 are
   deleted. *)
C5_DeleteEveryEntry ==
    Drained =>
        /\ Len(deletes) = Len(Mailbox)
        /\ \A i \in 1..Len(deletes) : deletes[i].keyword = Self.id

(* The entry is one that decrypts and passes the signature check and the
   proof of work. *)
Deliverable(message) ==
    /\ IsValue(message)
    /\ LET value == ParseFromString(message)
       IN  /\ Opens(SelfKey, value.valueKey, value.serializedData)
           /\ Parses("Plaintext_Message", value.serializedData[4])
           /\ LET p == ParseFromString(value.serializedData[4])
              IN  /\ p.signature = Sign(PubkeyOf(p.signed_pubkey),
                                        SerializeToString("Plaintext_Message",
                                                          [p EXCEPT !.signature = Empty]))
                  /\ PowWindow(p.signed_pubkey) < 50
                  /\ p.sender_guid = GuidOf(p.signed_pubkey)

(* C6: the listener is notified once for each entry that decrypts and
   passes the signature check and the proof of work, in the order of the
   mailbox, with the sender's guid and encryption key, the subject, the
   type and the body, and for no other entry: an entry that fails, at any
   position, does not stop the entries after it. *)
C6_NotifyEachValidEntryInOrder ==
    (last.op = "get_messages" /\ last.phase = "callback") =>
        IF last.value = None THEN notified = <<>>
        ELSE LET delivered == SelectSeq(Mailbox, Deliverable)
             IN  /\ Len(notified) = Len(delivered)
                 /\ \A i \in 1..Len(delivered) :
                        LET p == ParseFromString(ParseFromString(delivered[i]).serializedData[4])
                        IN  notified[i] = [guid |-> p.sender_guid,
                                           encryption_pubkey |-> p.encryption_pubkey,
                                           subject |-> p.subject, type |-> p.type[2],
                                           message |-> p.message]

(* C6, witnessed: two failing entries in a row, the first of them bytes
   that are no Value, and the entry after them is delivered. *)
C6_Witness ==
    /\ Drained
    /\ Len(Mailbox) = 3
    /\ ~IsValue(Mailbox[1])
    /\ IsValue(Mailbox[2]) /\ ~Deliverable(Mailbox[2])
    /\ Deliverable(Mailbox[3])
    /\ Len(notified) = 1

(* C7: the mailbox entry confirm_order writes for a buyer it
   cannot reach is under digest of the buyer's id, the id resolve was given
   and under which the buyer drains its inbox; the message in it has as
   subject the hex of the digest of the contract without its
   vendor_order_confirmation and as body the confirmation alone. *)
C7_FallbackUnderBuyerKey ==
    app.op = "confirm_order" =>
        \A i \in 1..Len(sets) :
            LET sent == ParseFromString(sets[i].value[4])
            IN  /\ sets[i].keyword = digest(rpcs[1].arg.resolved)
                /\ sets[i].keyword = digest(Buyer.id)
                /\ sent.subject = hexlify(digest(dumps(
                       [vendor_offer |-> app.contract.vendor_offer,
                        buyer_order |-> app.contract.buyer_order])))
                /\ sent.message = dumps(app.contract.vendor_order_confirmation)

(* C8: whenever the buyer does not resolve to a live address,
   confirm_order writes a mailbox entry to the overlay, with no callMessage
   and no callOrderConfirmation. *)
C8_UnreachableBuyerGetsEntry ==
    (app.op = "confirm_order" /\ last.op = "get_node" /\ last.value = None) =>
        /\ Len(sets) = 1
        /\ Len(CallsOf("callMessage")) = 0
        /\ Len(CallsOf("callOrderConfirmation")) = 0

(* C23, as claimed: when the buyer resolved to a live address, the answer
   to callOrderConfirmation decides the fallback: one mailbox entry is
   written when the RPC itself failed, and none when it succeeded, whether
   the acknowledgment is "True" or not; a confirm_order call never writes
   more than one entry. *)
C23_FallbackExactlyWhenRpcFails ==
    /\ app.op = "confirm_order" => Len(sets) <= 1
    /\ (app.op = "confirm_order" /\ last.op = "parse_response"
            /\ last.phase = "callback") =>
           /\ ~last.result.ok => Len(sets) = 1
           /\ last.result.ok => Len(sets) = 0

----------------------------------------------------------------------------
(* send_notification, lines 376-405 *)

MaxNotifyFollowers == 3
MaxNotificationLen == 140

(* FollowData().get_followers(): the followers the database holds. *)
FollowerNames == <<"f1", "f2", "f3", "f4", "f5">>
StoredFollowers ==
    {[i \in 1..n |-> GuidOf(SignedPubkey("n0", FollowerNames[i]))] : n \in 0..MaxNotifyFollowers}

Notices == {<<"text", MaxNotificationLen>>, <<"text", MaxNotificationLen + 1>>}

(* What kserver.resolve(guid) ends with: the node, or None. *)
Resolutions(guid) == {None, <<"node", Node(guid, "10.0.1.1", guid[2])>>}

(* A deferred of a DeferredList: the call it waits for, its result once it
   has fired, and at, its place in the order of arrival (0 while it has not
   fired). *)
Slot(call) == [call |-> call, at |-> 0, result |-> <<"pending">>]
fired(slot) == slot.at > 0
Arrive(d, i, result) ==
    [d EXCEPT ![i] = [@ EXCEPT !.at = 1 + Cardinality({j \in 1..Len(d) : fired(d[j])}),
                               !.result = result]]
CallsIn(d) == [i \in 1..Len(d) |-> d[i].call]

(* A DeferredList that fires with the first of its deferreds. *)
DeferredList_fired_on_first(d) == \E i \in 1..Len(d) : fired(d[i])

(* defer.DeferredList(ds), lines 399 and 405: it fires when every one of
   its deferreds has, an empty one at once. *)
DeferredList_fired(d) == \A i \in 1..Len(d) : fired(d[i])

Count(n) == <<"int", n>>
Deferred == <<"Deferred">>

(* Counting every answer, whatever it says. *)
how_many_reached_any_answer(responses) ==
    Cardinality({j \in 1..Len(responses) : responses[j].result.ok})

(* how_many_reached, lines 387-392. *)
how_many_reached(responses) ==
    Cardinality({j \in 1..Len(responses) :
                    /\ responses[j].result.ok
                    /\ responses[j].result.data[1] = "True"})

(* send, lines 394-399: a callNotify to each node that is not None. *)
send(nodes, message) ==
    LET live == SelectSeq(nodes, LAMBDA n : n.result # None)
    IN  [j \in 1..Len(live) |->
            Slot(Call("callNotify", live[j].result[2],
                      [message |-> message, signature |-> Sign(SelfKey, message)]))]

(* What the deferred send returns holds. *)
reached(responses) ==
    IF DeferredList_fired(responses) THEN Count(how_many_reached(responses)) ELSE Deferred

send_notification ==
    /\ app.op = "none"
    /\ \E message \in Notices, followers \in StoredFollowers :
          LET refused  == len(message) > MaxNotificationLen
              resolves == IF refused THEN <<>>
                          ELSE [i \in 1..Len(followers) |->
                                   Slot(Call("resolve", Self, followers[i]))]
              sending  == ~refused /\ DeferredList_fired(resolves)
              sent     == IF sending THEN send(resolves, message) ELSE <<>>
          IN  /\ app' = [op |-> "send_notification", message |-> message,
                         followers |-> followers]
              /\ dl' = resolves
              /\ ds' = sent
              /\ rpcs' = rpcs \o CallsIn(resolves) \o CallsIn(sent)
              /\ last' = MsgLast("return", "send_notification", NoResult,
                                 IF refused THEN Count(0)
                                 ELSE IF sending THEN reached(sent) ELSE Deferred)
    /\ UNCHANGED <<cache, db, calls, sets, deletes, notified, transport>>

resolve_callback ==
    /\ app.op = "send_notification"
    /\ \E i \in 1..Len(dl) :
          /\ ~fired(dl[i])
          /\ \E node \in Resolutions(dl[i].call.arg) :
                LET nodes   == Arrive(dl, i, node)
                    sending == DeferredList_fired(nodes)
                    sent    == IF sending THEN send(nodes, app.message) ELSE ds
                IN  /\ dl' = nodes
                    /\ ds' = sent
                    /\ rpcs' = rpcs \o (IF sending THEN CallsIn(sent) ELSE <<>>)
                    /\ last' = MsgLastValue("callback", "resolve", node,
                                       IF sending THEN reached(sent) ELSE last.ret)
    /\ UNCHANGED <<cache, db, calls, app, sets, deletes, notified, transport>>

callNotify_callback ==
    /\ app.op = "send_notification"
    /\ \E j \in 1..Len(ds) :
          /\ ~fired(ds[j])
          /\ \E response \in Acks :
                LET responses == Arrive(ds, j, response)
                IN  /\ ds' = responses
                    /\ last' = MsgLast("callback", "callNotify", response,
                                       IF DeferredList_fired(responses)
                                       THEN reached(responses) ELSE last.ret)
    /\ UNCHANGED <<cache, db, calls, app, rpcs, sets, deletes, notified, transport, dl>>

NotifyInit == MsgInit /\ transport = TRUE

NotifyNext ==
    \/ send_notification
    \/ resolve_callback
    \/ callNotify_callback

SpecNotify == NotifyInit /\ [][NotifyNext]_vars

----------------------------------------------------------------------------
(* Claims on the notifications *)

Completed(d) == {i \in 1..Len(d) : d[i].at > 0}
Resolved == {i \in Completed(dl) : dl[i].result # None}
Acknowledged == {j \in Completed(ds) : ds[j].result.ok /\ ds[j].result.data[1] = "True"}
NotifiedFollower(i) == \E j \in 1..Len(ds) : ds[j].call.node.id = dl[i].call.arg

(* C9: send_notification returns the number of followers that resolved to
   a live address and whose callNotify ended with the answer "True"; a
   follower that did not resolve gets no callNotify and is not counted.  A
   message of more than 140 characters returns 0 with no resolve and no
   callNotify; one of exactly 140 characters is sent. *)
C9_CountsFollowersReached ==
    app.op = "send_notification" =>
        IF len(app.message) > 140
        THEN last.ret = Count(0) /\ Len(rpcs) = 0
        ELSE /\ Len(CallsOf("resolve")) = Len(app.followers)
             /\ \A i \in 1..Len(dl) : NotifiedFollower(i) => i \in Resolved
             /\ Len(CallsOf("callNotify")) = Len(ds)
             /\ last.ret # Deferred =>
                    last.ret = Count(Cardinality(
                        {i \in Resolved :
                            \E j \in Acknowledged : ds[j].call.node.id = dl[i].call.arg}))

(* C9, witnessed: a message of 140 characters to 3 followers of which 2
   resolved and 1 acknowledged returned 1. *)
C9_Witness ==
    /\ app.op = "send_notification" /\ len(app.message) = 140
    /\ Len(dl) = 3 /\ Cardinality(Resolved) = 2
    /\ Len(ds) = 2 /\ Cardinality(Acknowledged) = 1
    /\ last.ret = Count(1)

(* C10: whatever the order in which the resolutions and the answers
   arrive, no callNotify is issued before every resolution has completed,
   the count is produced when every issued callNotify has completed and
   not before, and it is the number of acknowledgments, whatever the order
   of arrival. *)
C10_WaitForAllThenCount ==
    (app.op = "send_notification" /\ len(app.message) <= 140) =>
        /\ (Len(ds) > 0 \/ Len(CallsOf("callNotify")) > 0)
               => Completed(dl) = 1..Len(dl)
        /\ last.ret # Deferred
               <=> (Completed(dl) = 1..Len(dl) /\ Completed(ds) = 1..Len(ds))
        /\ last.ret # Deferred => last.ret = Count(Cardinality(Acknowledged))

(* C10, witnessed: the answers arrived in the reverse of the order of the
   calls, for the resolutions and for the notifications, the last to arrive
   being the only acknowledgment, and the count is 1. *)
C10_Witness ==
    /\ app.op = "send_notification"
    /\ Len(dl) = 3 /\ \A i \in 1..3 : dl[i].at = 4 - i
    /\ Len(ds) = 3 /\ \A j \in 1..3 : ds[j].at = 4 - j
    /\ Acknowledged = {1}
    /\ last.ret = Count(1)

----------------------------------------------------------------------------
(* Claims on the errors of the fetch calls and on the cache *)

Answered(op) == last.phase = "callback" /\ last.op = op

OuterSignatureVerifies(l) ==
    /\ Len(l.result.data) >= 2
    /\ l.result.data[2] = Sign(PubkeyOf(l.node.signed_pubkey), l.result.data[1])

(* C14: get_profile, given a profile whose outer signature verifies and
   whose PGP credential fails its own verification, returns the parsed
   profile with the pgp_key field cleared and nothing else changed; a
   profile whose outer signature verifies is never refused for its
   credential. *)
C14_FailingCredentialIsStripped ==
    (Answered("get_profile") /\ OuterSignatureVerifies(last)
        /\ Parses("Profile", last.result.data[1])) =>
        LET p == ParseFromString(last.result.data[1])
        IN  last.ret = <<"profile",
                         IF p.pgp_key.public_key # "" /\ ~p.pgp_key.good
                         THEN [p EXCEPT !.pgp_key = Pgp("", FALSE)]
                         ELSE p>>

FetchOps ==
    {"get_contract", "get_image", "get_profile", "get_user_metadata", "get_listings",
     "get_contract_metadata"}

(* C15: for a peer that cannot be reached every fetch call ends with None
   and never with an error: at once and with no RPC when the node's ip is
   unknown, and in the callback when the RPC failed (success flag false,
   no payload). *)
C15_UnreachablePeerGivesNone ==
    (last.phase # "init" /\ last.op \in FetchOps) =>
        /\ (last.phase # "callback" /\ last.node.ip = "None") =>
               (last.phase = "return" /\ last.ret = None /\ Len(calls) = 0)
        /\ (last.phase = "callback" /\ ~last.result.ok) => last.ret = None

(* C16: when the bytes get_contract receives hash to the hash asked for and
   are not a contract document, the outcome is None, nothing is cached and
   no error leaves the callback. *)
C16_MalformedContractGivesNone ==
    (Answered("get_contract") /\ HashMatches(last) /\ ~IsContractDocument(last)) =>
        (last.ret = None /\ cache = last.before)

Contents(c) == {f.content : f \in c}

(* C17: in every step of the fetch calls each cache entry is named by the
   hex of the digest of its own bytes, no two entries share a name, an
   entry that exists is kept as it is, and a callback that caches bytes
   the cache holds leaves the cache as it was. *)
C17_CacheByContentHashOnce ==
    [][ /\ \A f \in cache' : f.name = hexlify(digest(f.content))
        /\ \A f \in cache' : \A g \in cache' : f.name = g.name => f = g
        /\ \A f \in cache : f \in cache'
        /\ (last'.phase = "callback" /\ Len(last'.result.data) > 0
              /\ last'.result.data[1] \in Contents(cache)) => cache' = cache
        /\ Cardinality(cache') <= Cardinality(cache) + 1 ]_vars

(* C17, witnessed: get_image verified and returned an image the cache
   held, and the cache is what it was. *)
C17_Witness ==
    /\ Answered("get_image")
    /\ last.ret[1] = "image"
    /\ last.result.data[1] \in Contents(last.before)
    /\ cache = last.before

(* The image hashes a contract document lists, and whether each of them
   is hex (line 80 asks for the image of each one in turn). *)
ImageHashesOf(l) == loads(l.result.data[1]).vendor_offer.listing.image_hashes

(* The contract passed the try block of lines 53-76: the three checks
   hold of a document that has a moderators list (line 59 reads it). *)
ContractVerified(l) ==
    ContractTrusted(l) /\ loads(l.result.data[1]).vendor_offer.listing.has_moderators

ImagesAsked(l) ==
    \A i \in 1..Len(ImageHashesOf(l)) : IsHex(ImageHashesOf(l)[i])

(* C21: the callback of get_contract that verified the contract and asked
   for its images returns the parsed contract in the step that caches it:
   at that point one get_image call per listed hash has been issued to the
   node asked, all of them are still in flight (none has answered, and
   none need ever answer), and what is returned is the document parsed
   from the bytes received, whatever the images will turn out to be. *)
C21_ContractDeliveredBeforeImages ==
    (last.op = "get_contract" /\ last.phase = "callback"
        /\ ContractVerified(last) /\ ImagesAsked(last)) =>
        /\ last.ret = <<"contract", loads(last.result.data[1])>>
        /\ isfile(cache, CacheName(last.result.data[1]))
        /\ Len(last.issued) = Len(ImageHashesOf(last))
        /\ calls = last.issued
        /\ \A i \in 1..Len(calls) :
               calls[i] = Call("get_image", last.node, unhexlify(ImageHashesOf(last)[i]))

(* C21, witnessed: the contract was returned while the fetches of its two
   images were in flight. *)
C21_Witness ==
    /\ last.op = "get_contract" /\ last.phase = "callback"
    /\ ContractVerified(last) /\ ImagesAsked(last)
    /\ last.ret[1] = "contract"
    /\ Len(calls) = 2
    /\ \A i \in 1..2 : calls[i].op = "get_image"

----------------------------------------------------------------------------
(* follow, unfollow and purchase, lines 244-302 and 480-505 *)

PyTrue == <<"True">>
PyFalse == <<"False">>

(* FollowData().follow(u) and .unfollow(guid): the store holds one entry
   for an identity; follow puts the entry in the place of the one the
   identity had, unfollow takes the identity's entry out. *)
FollowData_follow(store, u) == {x \in store : x.guid # u.guid} \cup {u}
FollowData_unfollow(store, guid) == {x \in store : x.guid # guid}

(* The nodes the application can name: one whose guid is the hash of its
   key and passes the proof of work, one whose hash misses the proof of
   work, and one whose id is not the hash of its key. *)
WeakSpk == SignedPubkey("n50", "p")
ForgedSpk == SignedPubkey("n0", "g")
Peers ==
    { Vendor,
      Node(GuidOf(WeakSpk), "10.0.0.4", WeakSpk),
      Node(GuidOf(SignedPubkey("n0", "a")), "10.0.0.5", ForgedSpk) }

(* A following entry as save_to_db builds it, lines 256-262. *)
FollowingUser(node, metadata, signature) ==
    [guid |-> node.id, signed_pubkey |-> node.signed_pubkey,
     metadata |-> metadata, signature |-> signature]

(* What the store holds when the node starts: entries follow saved. *)
SavedUsers ==
    {FollowingUser(n, m, Sign(PubkeyOf(n.signed_pubkey), SerializeToString("Metadata", m))) :
        n \in {Vendor, Node(GuidOf(SignedPubkey("n49", "b")), "10.0.0.6",
                            SignedPubkey("n49", "b"))},
        m \in {[avatar_hash |-> digest(<<"img", "i1">>)]}}
Stores == SUBSET SavedUsers

(* What the node answers to callFollow: nothing, a refusal, an
   acknowledgment alone, or an acknowledgment with bytes and a signature
   over them. *)
FollowResults(node) ==
    {RpcFailed, RpcResult(<<"False">>), RpcResult(<<"True">>)}
    \cup {RpcResult(<<"True", b, Sign(k, b)>>) :
             b \in {SerializeToString("Metadata", m) : m \in Metadatas} \cup {Junk},
             k \in {PubkeyOf(node.signed_pubkey), "x"}}

Saved(ret, store) == [ret |-> ret, db |-> store]

(* save_to_db that stores the entry before the signature is verified. *)
follow_save_to_db_unverified(node_to_follow, result, store) ==
    IF result.ok /\ result.data[1] = "True"
    THEN IF Len(result.data) < 3 THEN Saved(PyFalse, store)
         ELSE IF ~Parses("Metadata", result.data[2]) THEN Saved(PyFalse, store)
         ELSE LET u == FollowingUser(node_to_follow, ParseFromString(result.data[2]),
                                     result.data[3])
              IN  IF ~verify(PubkeyOf(node_to_follow.signed_pubkey), result.data[2],
                             result.data[3])
                  THEN Saved(PyFalse, FollowData_follow(store, u))
                  ELSE Saved(PyTrue, FollowData_follow(store, u))
    ELSE Saved(PyFalse, store)

(* follow.save_to_db, lines 253-271: what it returns and the store after
   it; an exception inside the try block gives False. *)
follow_save_to_db(node_to_follow, result, store) ==
    IF result.ok /\ result.data[1] = "True"
    THEN IF Len(result.data) < 3 THEN Saved(PyFalse, store)
         ELSE IF ~Parses("Metadata", result.data[2]) THEN Saved(PyFalse, store)
         ELSE LET u == FollowingUser(node_to_follow, ParseFromString(result.data[2]),
                                     result.data[3])
              IN  IF ~verify(PubkeyOf(node_to_follow.signed_pubkey), result.data[2],
                             result.data[3])
                  THEN Saved(PyFalse, store)
                  ELSE Saved(PyTrue, FollowData_follow(store, u))
    ELSE Saved(PyFalse, store)

(* Lines 273-285: the Follower message of the local node and the
   signature over it. *)
follow_request(node_to_follow) ==
    LET f == SerializeToString("Follower",
                 [guid |-> Self.id, following |-> node_to_follow.id,
                  signed_pubkey |-> SelfSpk, metadata |-> <<"meta", SelfKey>>])
    IN  Call("callFollow", node_to_follow, [proto |-> f, signature |-> Sign(SelfKey, f)])

(* The application calls op on node: the RPC goes out and the deferred is
   returned. *)
Request(op, node, call, args) ==
    /\ app' = [op |-> op, node |-> node, args |-> args, db |-> db]
    /\ calls' = Append(calls, call)
    /\ rpcs' = Append(rpcs, call)
    /\ last' = MsgLast("return", op, NoResult, Deferred)
    /\ UNCHANGED <<cache, db, sets, deletes, notified, transport, dl, ds>>

(* The callback of the call in flight ran on result. *)
Respond(i, result, ret, store) ==
    /\ calls' = RemoveAt(calls, i)
    /\ db' = store
    /\ last' = MsgLast("callback", calls[i].op, result, ret)
    /\ UNCHANGED <<cache, app, rpcs, sets, deletes, notified, transport, dl, ds>>

follow ==
    /\ app.op = "none"
    /\ \E node_to_follow \in Peers :
          Request("follow", node_to_follow, follow_request(node_to_follow), None)

follow_callback ==
    \E i \in 1..Len(calls) :
        /\ calls[i].op = "callFollow"
        /\ \E result \in FollowResults(calls[i].node) :
              LET saved == follow_save_to_db(calls[i].node, result, db)
              IN  Respond(i, result, saved.ret, saved.db)

(* unfollow.save_to_db that removes the entry whatever the node said. *)
unfollow_save_to_db_always(node_to_unfollow, result, store) ==
    IF result.ok /\ result.data[1] = "True"
    THEN Saved(PyTrue, FollowData_unfollow(store, node_to_unfollow.id))
    ELSE Saved(PyFalse, FollowData_unfollow(store, node_to_unfollow.id))

(* unfollow.save_to_db, lines 293-298. *)
unfollow_save_to_db(node_to_unfollow, result, store) ==
    IF result.ok /\ result.data[1] = "True"
    THEN Saved(PyTrue, FollowData_unfollow(store, node_to_unfollow.id))
    ELSE Saved(PyFalse, store)

unfollow ==
    /\ app.op = "none"
    /\ \E node_to_unfollow \in Peers :
          Request("unfollow", node_to_unfollow,
                  Call("callUnfollow", node_to_unfollow,
                       Sign(SelfKey, <<"unfollow:", node_to_unfollow.id>>)),
                  None)

unfollow_callback ==
    \E i \in 1..Len(calls) :
        /\ calls[i].op = "callUnfollow"
        /\ \E result \in Acks :
              LET saved == unfollow_save_to_db(calls[i].node, result, db)
              IN  Respond(i, result, saved.ret, saved.db)

(* The contracts purchase is given: the buyer's order names the payment
   address, the vendor's listing the key to encrypt to. *)
Addresses == {<<"str", "1Buyer">>, <<"str", "1Other">>}
PurchaseContracts ==
    {[vendor_offer |-> [listing |-> [id |-> [pubkeys |->
                           [encryption |-> hexlify(EncPub("v"))]]]],
      buyer_order |-> [order |-> [payment |-> [address |-> a]]]] : a \in Addresses}

(* What the vendor answers to callOrder: nothing, an empty payload, bytes
   that are no signature, or a signature over an address. *)
OrderResults ==
    {RpcFailed, RpcResult(<<>>), RpcResult(<<Junk>>)}
    \cup {RpcResult(<<Sign(k, a)>>) : k \in {"v", "x", "p"}, a \in Addresses}

(* parse_response that returns what the vendor sent, verified or not. *)
purchase_parse_response_unverified(node_to_ask, contract, response) ==
    IF Len(response.data) = 0 THEN PyFalse
    ELSE response.data[1]

(* purchase.parse_response, lines 489-496: False when the read of
   response[1][0] or verify raises. *)
purchase_parse_response(node_to_ask, contract, response) ==
    LET address == contract.buyer_order.order.payment.address
    IN  IF Len(response.data) = 0 THEN PyFalse
        ELSE IF ~verify(PubkeyOf(node_to_ask.signed_pubkey), address, response.data[1])
        THEN PyFalse
        ELSE response.data[1]

(* Lines 498-504: the contract in a box for the vendor's key. *)
purchase ==
    /\ app.op = "none"
    /\ \E node_to_ask \in Peers, contract \in PurchaseContracts, skephem \in Ephemerals :
        LET public_key == contract.vendor_offer.listing.id.pubkeys.encryption
            ciphertext == encrypt(skephem, unhexlify(public_key), dumps(contract))
        IN  Request("purchase", node_to_ask,
                    Call("callOrder", node_to_ask,
                         [pkephem |-> EncPub(skephem), ciphertext |-> ciphertext]),
                    contract)

purchase_callback ==
    \E i \in 1..Len(calls) :
        /\ calls[i].op = "callOrder"
        /\ \E response \in OrderResults :
              Respond(i, response,
                      purchase_parse_response(calls[i].node, app.args, response), db)

PeerInit ==
    /\ cache = {}
    /\ calls = <<>>
    /\ last = MsgLast("init", "none", NoResult, None)
    /\ app = [op |-> "none"]
    /\ rpcs = <<>>
    /\ sets = <<>>
    /\ deletes = <<>>
    /\ notified = <<>>
    /\ transport = TRUE
    /\ dl = <<>>
    /\ ds = <<>>
    /\ db \in Stores

PeerNext ==
    \/ follow
    \/ follow_callback
    \/ unfollow
    \/ unfollow_callback
    \/ purchase
    \/ purchase_callback

SpecPeer == PeerInit /\ [][PeerNext]_vars

----------------------------------------------------------------------------
(* Claims on follow, unfollow and purchase *)

Target == app.node
EntriesOf(store, guid) == {x \in store : x.guid = guid}
MetadataSigned(data) ==
    /\ Len(data) >= 3
    /\ Parses("Metadata", data[2])
    /\ data[3] = Sign(PubkeyOf(Target.signed_pubkey), data[2])

(* C11: follow saves a following entry for the target and returns True
   exactly when the RPC succeeded, the acknowledgment is "True" and the
   target returned a metadata with a signature over it that verifies
   against the target's signing key; in every other case the store is
   what it was and the result is False. *)
C11_FollowSavesExactlyWhenVerified ==
    (last.phase = "callback" /\ last.op = "callFollow") =>
        IF last.result.ok /\ last.result.data[1] = "True" /\ MetadataSigned(last.result.data)
        THEN /\ last.ret = PyTrue
             /\ EntriesOf(db, Target.id) =
                    {[guid |-> Target.id, signed_pubkey |-> Target.signed_pubkey,
                      metadata |-> ParseFromString(last.result.data[2]),
                      signature |-> last.result.data[3]]}
             /\ db \ EntriesOf(db, Target.id) = app.db \ EntriesOf(app.db, Target.id)
        ELSE last.ret = PyFalse /\ db = app.db

(* C11, witnessed: the store held an entry of the target, the target
   acknowledged with another metadata, signed, and the entry is the new
   one. *)
C11_Witness ==
    /\ last.phase = "callback" /\ last.op = "callFollow"
    /\ last.ret = PyTrue
    /\ EntriesOf(app.db, Target.id) # {}
    /\ EntriesOf(db, Target.id) # EntriesOf(app.db, Target.id)
    /\ Cardinality(db) = Cardinality(app.db)

(* C12: every entry in the following store is of an identity that passed
   the signature check and the proof of work: its guid is the first 20
   bytes of the hash of its signed pubkey and the 3-byte window of the hash
   is below 50. *)
C12_SavedUsersPassProofOfWork ==
    \A u \in db :
        /\ u.signature = Sign(PubkeyOf(u.signed_pubkey),
                              SerializeToString("Metadata", u.metadata))
        /\ PowWindow(u.signed_pubkey) < 50
        /\ u.guid = GuidOf(u.signed_pubkey)

(* C13: purchase returns what the vendor answered only when it is a
   signature by the vendor's signing key over the buyer's payment address;
   when it is not, when the RPC failed and when the answer has no payload
   the result is False. *)
C13_PurchaseAcknowledgedOnlyWhenSigned ==
    (last.phase = "callback" /\ last.op = "callOrder") =>
        LET address == app.args.buyer_order.order.payment.address
            signed  == /\ Len(last.result.data) > 0
                       /\ last.result.data[1] = Sign(PubkeyOf(Target.signed_pubkey), address)
        IN  /\ signed => last.ret = last.result.data[1]
            /\ ~signed => last.ret = PyFalse

(* C13, witnessed: the vendor answered with its signature over another
   address, and the result is False. *)
C13_Witness ==
    /\ last.phase = "callback" /\ last.op = "callOrder"
    /\ Len(last.result.data) > 0
    /\ last.result.data[1][1] = "sig"
    /\ last.result.data[1][2] = PubkeyOf(Target.signed_pubkey)
    /\ last.result.data[1][3] # app.args.buyer_order.order.payment.address
    /\ last.ret = PyFalse

(* C20: unfollow takes the target's entry out of the following store and
   returns True exactly when the RPC succeeded with the acknowledgment
   "True"; otherwise the store is what it was and the result is False.
   No entry of another identity is changed either way. *)
C20_UnfollowRemovesOnlyTheTarget ==
    (last.phase = "callback" /\ last.op = "callUnfollow") =>
        /\ IF last.result.ok /\ last.result.data[1] = "True"
           THEN last.ret = PyTrue /\ EntriesOf(db, Target.id) = {}
           ELSE last.ret = PyFalse /\ db = app.db
        /\ db \ EntriesOf(db, Target.id) = app.db \ EntriesOf(app.db, Target.id)

(* C20, witnessed: the store held the target and another identity, the
   target acknowledged, and the other identity's entry alone is left. *)
C20_Witness ==
    /\ last.phase = "callback" /\ last.op = "callUnfollow"
    /\ last.ret = PyTrue
    /\ Cardinality(app.db) = 2
    /\ Cardinality(db) = 1
    /\ db \subseteq app.db

----------------------------------------------------------------------------
(* Claims on the wait for the transport *)

Scheduled == SelectSeq(calls, LAMBDA c : c.op = "deferLater")
OverlayGets == CallsOf("kserver.get")

(* C19: get_messages asks nothing of the overlay while the transport is
   not set: an invocation then schedules one retry of itself and nothing
   else, so that a drain has either its one retry scheduled or its one
   get issued, and the get asks for the local node's id; once the
   transport is set the get is issued, once. *)
C19_WaitForTransportThenGetOnce ==
    /\ [](app.op = "get_messages" =>
            /\ ~transport => (Len(OverlayGets) = 0 /\ Len(Scheduled) = 1)
            /\ Len(Scheduled) + Len(OverlayGets) = 1
            /\ \A i \in 1..Len(OverlayGets) : OverlayGets[i].arg = Self.id)
    /\ (app.op = "get_messages" ~> (transport /\ Len(OverlayGets) = 1))

(* C19, witnessed: the drain was asked for before the transport was set,
   its retry is scheduled and nothing was asked of the overlay. *)
C19_Witness ==
    /\ app.op = "get_messages"
    /\ ~transport
    /\ Len(Scheduled) = 1
    /\ Len(rpcs) = 0

----------------------------------------------------------------------------
(* A message from its sender's send_message, through the overlay, to the
   drain of the node it was sealed to.  The sender is a node of its own
   that runs send_message; the local node runs get_messages. *)

Writers == {Buyer}
Readers == {SelfKey, "a"}

(* kserver.get: the overlay hands out each (key, value) written as a
   serialized Value. *)
kserver_value(request) ==
    SerializeToString("Value", [valueKey |-> request.key, serializedData |-> request.value])

sender_send_message ==
    /\ app.op = "none"
    /\ \E sender \in Writers, reader \in Readers, message_type \in {"CHAT", "ORDER"},
          message \in Texts, subject \in Subjects, store_only \in BOOLEAN,
          skephem \in Ephemerals :
          LET receiving_node == Node(GuidOf(SignedPubkey("n0", reader)), "10.0.0.2",
                                     SignedPubkey("n0", reader))
              public_key == hexlify(EncPub(reader))
              eff == send_message_of(PubkeyOf(sender.signed_pubkey), sender, receiving_node,
                                     public_key, Type_Value(message_type), message, subject,
                                     store_only, skephem)
          IN  /\ app' = [op |-> "send_message", sender |-> sender,
                         receiving_node |-> receiving_node,
                         public_key |-> public_key, message_type |-> message_type,
                         message |-> message, subject |-> subject,
                         store_only |-> store_only, skephem |-> skephem]
              /\ calls' = calls \o eff.issued
              /\ rpcs' = rpcs \o eff.issued
              /\ sets' = sets \o eff.written
              /\ last' = MsgLast("return", "send_message", NoResult, None)
    /\ UNCHANGED <<cache, db, deletes, notified, transport, dl, ds>>

(* The local node drains once the overlay holds the message. *)
reader_get_messages ==
    /\ Len(sets) > 0
    /\ Len(CallsOf("kserver.get")) = 0
    /\ calls' = calls \o get_messages_body
    /\ rpcs' = rpcs \o get_messages_body
    /\ last' = MsgLast("return", "get_messages", NoResult, None)
    /\ UNCHANGED <<cache, db, app, sets, deletes, notified, transport, dl, ds>>

(* The overlay answers with what was written, as it was written or with
   the ciphertext changed. *)
reader_parse_messages_callback ==
    /\ \E i \in 1..Len(calls) :
          /\ calls[i].op = "kserver.get"
          /\ calls' = RemoveAt(calls, i)
          /\ \E changed \in BOOLEAN :
                LET messages == <<"messages",
                                  [j \in 1..Len(sets) |->
                                      IF changed THEN Tampered(kserver_value(sets[j]))
                                      ELSE kserver_value(sets[j])]>>
                IN  /\ notified' = notified \o parse_messages(messages).notified
                    /\ deletes' = deletes \o parse_messages(messages).deleted
                    /\ last' = MsgLastValue("callback", "get_messages", messages, None)
    /\ UNCHANGED <<cache, db, app, rpcs, sets, transport, dl, ds>>

RoundTripInit == MsgInit /\ transport = TRUE

RoundTripNext ==
    \/ sender_send_message
    \/ callMessage_callback
    \/ reader_get_messages
    \/ reader_parse_messages_callback

SpecRoundTrip == RoundTripInit /\ [][RoundTripNext]_vars

(* C18: a message send_message stored for a recipient, sealed to the
   recipient's encryption key, is handed by the recipient's get_messages to
   the listener with the sender's guid and encryption key and the subject,
   the name of the type and the body that were sent; when the ciphertext
   was changed on the way, or the box was sealed to another key than the
   one it is opened with, the listener is not notified. *)
C18_StoredMessageIsDeliveredAsSent ==
    (last.op = "get_messages" /\ last.phase = "callback") =>
        LET sealed_to_reader == unhexlify(app.public_key) = <<"curve", SelfKey>>
            intact == ParseFromString(last.value[2][1]).serializedData = sets[1].value
        IN  IF sealed_to_reader /\ intact
            THEN notified = <<[guid |-> app.sender.id,
                               encryption_pubkey |-> <<"curve", app.sender.signed_pubkey[3]>>,
                               subject |-> IF app.subject = None THEN <<"">> ELSE app.subject,
                               type |-> app.message_type,
                               message |-> app.message]>>
            ELSE notified = <<>>

(* C18, witnessed: the direct delivery of an ORDER message with a subject
   failed, the message went to the overlay, and the recipient's listener
   has it. *)
C18_Witness ==
    /\ last.op = "get_messages" /\ last.phase = "callback"
    /\ app.op = "send_message" /\ ~app.store_only /\ app.message_type = "ORDER"
    /\ app.subject # None
    /\ Len(sets) = 1
    /\ Len(notified) = 1
    /\ notified[1].message = app.message

====
